---- MODULE Spec2Model ----
(***************************************************************************)
(* Model of polygon_orientation.py: the signed angle between two vectors,  *)
(* the cumulative turning angle of a polygon and its rotation count.       *)
(*                                                                         *)
(* Numbers are modelled in exact arithmetic.  Points and vectors have      *)
(* integer coordinates.  The reals the code computes from them are kept    *)
(* exactly:                                                                *)
(*   - a scalar num / sqrt(den2) is the record [num, den2]; den2 = 0 is    *)
(*     the NaN that 0/0 produces;                                          *)
(*   - an angle 2*pi*turns + atan2(dir[2], dir[1]), with atan2 in          *)
(*     (-pi, pi], is the record [turns, dir], dir a primitive integer      *)
(*     vector; dir = <<0, 0>> is NaN;                                      *)
(*   - a rational num / den is the record [num, den]; den = 0 is NaN.      *)
(***************************************************************************)
EXTENDS Integers, Sequences, FiniteSets, TLC

\* Largest number of points in an input.
MaxLen == 4
\* Largest absolute coordinate of a vector handed to angle_between directly.
VMax == 3
\* Largest number of whole turns of an angle handed to the validation directly.
MaxTurns == 2

VARIABLES
  pc,                \* position of the running call
  arg,               \* the argument `points` as the caller passed it
  points,            \* the local `points` of compute_total_angle (trimmed)
  i,                 \* loop index of compute_total_angle
  cumulative_angle,  \* running sum of compute_total_angle
  n_calls,           \* number of angle_between evaluations made so far
  ret_total,         \* what compute_total_angle returned, if it did
  total_angle,       \* compute_n_rotations: the angle in degrees
  n_rotations,       \* compute_n_rotations: total_angle / 360.0
  round_n_rotations, \* compute_n_rotations: np.round(n_rotations)
  ret,               \* what compute_n_rotations returned, if it did
  err,               \* the exception that ended the call, if any
  v1, v2,            \* arguments of a direct angle_between call
  ret_angle          \* what the direct angle_between call returned, if it did

vars == <<pc, arg, points, i, cumulative_angle, n_calls, ret_total, total_angle,
          n_rotations, round_n_rotations, ret, err, v1, v2, ret_angle>>

\* An absent value and a present one.
None == <<>>
Some(x) == <<x>>

----------------------------------------------------------------------------
(* Integer helpers *)

Abs(x) == IF x < 0 THEN -x ELSE x

Sgn(x) == IF x > 0 THEN 1 ELSE IF x < 0 THEN -1 ELSE 0

RECURSIVE Gcd(_, _)
Gcd(a, b) == IF b = 0 THEN a ELSE Gcd(b, a % b)

\* The primitive integer vector in the direction of d (<<0,0>> stays).
Primitive(d) ==
  LET g == Gcd(Abs(d[1]), Abs(d[2]))
  IN  IF g = 0 THEN d ELSE <<d[1] \div g, d[2] \div g>>

\* The exact square root of a perfect square.
Sqrt(n) == CHOOSE r \in 0..n : r * r = n

----------------------------------------------------------------------------
(* Exact reals *)

NaNScalar == [num |-> 0, den2 |-> 0]
One == [num |-> 1, den2 |-> 1]
MinusOne == [num |-> -1, den2 |-> 1]
ScalarIsNaN(c) == c.den2 = 0

\* c > 1 and c < -1 for c = num / sqrt(den2).
GreaterThanOne(c) == c.num > 0 /\ c.num * c.num > c.den2
LessThanMinusOne(c) == c.num < 0 /\ c.num * c.num > c.den2

NaNAngle == [turns |-> 0, dir |-> <<0, 0>>]
ZeroAngle == [turns |-> 0, dir |-> <<1, 0>>]
Pi == [turns |-> 0, dir |-> <<-1, 0>>]
TwoPi == [turns |-> 1, dir |-> <<1, 0>>]
MinusTwoPi == [turns |-> -1, dir |-> <<1, 0>>]
AngleIsNaN(a) == a.dir = <<0, 0>>

\* Which half of (-pi, pi] the principal part atan2(d[2], d[1]) lies in:
\* 1 for (0, pi], 0 for 0, -1 for (-pi, 0).
Half(d) ==
  IF d[2] > 0 \/ (d[2] = 0 /\ d[1] < 0) THEN 1
  ELSE IF d[2] < 0 THEN -1 ELSE 0

\* -a.  The principal part pi negates to -pi = -2*pi + pi.
NegAngle(a) ==
  IF AngleIsNaN(a) THEN NaNAngle
  ELSE IF a.dir[2] = 0 /\ a.dir[1] < 0
       THEN [turns |-> -a.turns - 1, dir |-> a.dir]
       ELSE [turns |-> -a.turns, dir |-> <<a.dir[1], -a.dir[2]>>]

\* a + b: the directions multiply as complex numbers, and the principal parts
\* carry a whole turn when their sum leaves (-pi, pi].
AddAngle(a, b) ==
  IF AngleIsNaN(a) \/ AngleIsNaN(b) THEN NaNAngle
  ELSE
    LET p == Primitive(<<a.dir[1] * b.dir[1] - a.dir[2] * b.dir[2],
                         a.dir[1] * b.dir[2] + a.dir[2] * b.dir[1]>>)
        carry == IF Half(a.dir) = 1 /\ Half(b.dir) = 1 /\ Half(p) # 1 THEN 1
                 ELSE IF Half(a.dir) = -1 /\ Half(b.dir) = -1 /\ Half(p) # -1 THEN -1
                 ELSE 0
    IN  [turns |-> a.turns + b.turns + carry, dir |-> p]

\* np.arccos(c) for c in [-1, 1]: the angle in [0, pi] whose cosine is c, so
\* whose sine is sqrt(1 - c^2).
ArcCos(c) ==
  IF ScalarIsNaN(c) THEN NaNAngle
  ELSE IF c.num = 0 THEN [turns |-> 0, dir |-> <<0, 1>>]
  ELSE [turns |-> 0,
        dir |-> Primitive(<<c.num, Sqrt(c.den2 - c.num * c.num)>>)]

\* s * a for s a sign (1, 0, -1 or NaN).
Times(s, a) ==
  IF ScalarIsNaN(s) \/ AngleIsNaN(a) THEN NaNAngle
  ELSE IF s.num = 1 THEN a
  ELSE IF s.num = 0 THEN ZeroAngle
  ELSE NegAngle(a)

----------------------------------------------------------------------------
(* polygon_orientation.py *)

\* np.linalg.norm(v) squared.
Norm2(v) == v[1] * v[1] + v[2] * v[2]

\* normalize that leaves the zero vector as it is instead of dividing by 0.
normalizeGuarded(v) == [vec |-> v, den2 |-> IF Norm2(v) = 0 THEN 1 ELSE Norm2(v)]

\* v / |v|: the vector vec / sqrt(den2); 0/0 is NaN in both components.
normalize(v) == [vec |-> v, den2 |-> Norm2(v)]

\* Det with its rows exchanged, as np.linalg.det([n_v2, n_v1]) would be.
DetRowsExchanged(n_v1, n_v2) ==
  [num |-> n_v2.vec[1] * n_v1.vec[2] - n_v2.vec[2] * n_v1.vec[1],
   den2 |-> n_v1.den2 * n_v2.den2]

\* np.linalg.det([n_v1, n_v2])
Det(n_v1, n_v2) ==
  [num |-> n_v1.vec[1] * n_v2.vec[2] - n_v1.vec[2] * n_v2.vec[1],
   den2 |-> n_v1.den2 * n_v2.den2]

\* np.dot(n_v1, n_v2)
Dot(n_v1, n_v2) ==
  [num |-> n_v1.vec[1] * n_v2.vec[1] + n_v1.vec[2] * n_v2.vec[2],
   den2 |-> n_v1.den2 * n_v2.den2]

\* np.sign(c): the sign of a number, NaN for NaN.
Sign(c) == IF ScalarIsNaN(c) THEN NaNScalar ELSE [num |-> Sgn(c.num), den2 |-> 1]

\* TurnSign with the tie broken to -1, as `if s == 0: s = -1` would be.
TurnSignTieNegative(cross_product) ==
  LET s == Sign(cross_product)
  IN  IF ~ScalarIsNaN(s) /\ s.num = 0 THEN MinusOne ELSE s

\* TurnSign that always takes the angle positive, as s = 1 would be.
TurnSignUnsigned(cross_product) ==
  IF ScalarIsNaN(cross_product) THEN NaNScalar ELSE One

\* s = np.sign(cross_product); if s == 0: s = 1   (NaN == 0 is false)
TurnSign(cross_product) ==
  LET s == Sign(cross_product)
  IN  IF ~ScalarIsNaN(s) /\ s.num = 0 THEN One ELSE s

\* np.min([dot_product, 1]) then np.max([dot_product, -1]); NaN stays NaN.
Clamp(dot_product) ==
  LET lo == IF ScalarIsNaN(dot_product) THEN dot_product
            ELSE IF GreaterThanOne(dot_product) THEN One ELSE dot_product
  IN  IF ScalarIsNaN(lo) THEN lo
      ELSE IF LessThanMinusOne(lo) THEN MinusOne ELSE lo

angle_between(w1, w2) ==
  LET n_v1 == normalize(w1)
      n_v2 == normalize(w2)
      s == TurnSign(Det(n_v1, n_v2))
      dot_product == Clamp(Dot(n_v1, n_v2))
  IN  Times(s, ArcCos(dot_product))

\* 1 / rtol of the closing-point comparison (rtol=1e-8).
PointRtolInv == 100000000

\* np.isclose(a, b, rtol=1e-8) for integers a, b, with numpy's default
\* atol = 1e-8:  |a - b| <= 1e-8 + 1e-8 * |b|,  both sides times 1e8.
IsClosePoint(a, b) == PointRtolInv * Abs(a - b) <= 1 + Abs(b)

\* points[k] for a 0-based index k, and points[-1].
At(pts, k) == pts[k + 1]
Last(pts) == pts[Len(pts)]

\* The test of line 38: the last point is the same as the first.
ClosingPointRepeated(pts) ==
  /\ IsClosePoint(At(pts, 0)[1], Last(pts)[1])
  /\ IsClosePoint(At(pts, 0)[2], Last(pts)[2])

\* points[:-1]
DropLast(pts) == SubSeq(pts, 1, Len(pts) - 1)

\* Trimmed without the removal of lines 38-40.
TrimmedNever(pts) == pts

\* The local `points` after lines 38-40.
Trimmed(pts) == IF ClosingPointRepeated(pts) THEN DropLast(pts) ELSE pts

\* np.array(q) - np.array(p)
Minus(q, p) == <<q[1] - p[1], q[2] - p[2]>>

\* The indices and edge vectors of one loop iteration (lines 44-47).
IdxJ(pts, k) == (k + 1) % Len(pts)
IdxK(pts, k) == (k + 2) % Len(pts)
EdgeV1(pts, k) == Minus(At(pts, IdxJ(pts, k)), At(pts, k))
EdgeV2Reversed(pts, k) == Minus(At(pts, IdxJ(pts, k)), At(pts, IdxK(pts, k)))
EdgeV2(pts, k) == Minus(At(pts, IdxK(pts, k)), At(pts, IdxJ(pts, k)))

\* The assertion as len(points) > 1 would be.
LenOkTwo(pts) == Len(pts) > 1

\* The condition of the assertion of line 36.
LenOk(pts) == Len(pts) > 2

\* The loop as range(len(points) - 1) would be.
LoopBoundShort(pts) == Len(pts) - 1

\* The number of iterations of the loop of line 43: range(len(points)).
LoopBound(pts) == Len(pts)

\* The sum the loop of lines 42-48 has accumulated after its first k iterations.
RECURSIVE SumAngles(_, _)
SumAngles(pts, k) ==
  IF k = 0 THEN ZeroAngle
  ELSE AddAngle(SumAngles(pts, k - 1),
                angle_between(EdgeV1(pts, k - 1), EdgeV2(pts, k - 1)))

\* compute_total_angle as a function, for inputs that pass the assertion.
compute_total_angle(pts) == SumAngles(Trimmed(pts), LoopBound(Trimmed(pts)))

----------------------------------------------------------------------------
(* compute_n_rotations: degrees and rotation counts are rationals num / den *)

NaNRational == [num |-> 0, den |-> 0]
RationalIsNaN(q) == q.den = 0
Integer(n) == [num |-> n, den |-> 1]

\* atan2(d[2], d[1]) in degrees, for the directions at which it is rational:
\* by Niven's theorem these are the multiples of 45 degrees.
ArgDegrees(d) ==
  CASE d = <<1, 0>>   -> 0
    [] d = <<1, 1>>   -> 45
    [] d = <<0, 1>>   -> 90
    [] d = <<-1, 1>>  -> 135
    [] d = <<-1, 0>>  -> 180
    [] d = <<-1, -1>> -> -135
    [] d = <<0, -1>>  -> -90
    [] d = <<1, -1>>  -> -45

\* 180 * rad / np.pi
rad_to_deg(rad) ==
  IF AngleIsNaN(rad) THEN NaNRational
  ELSE Integer(360 * rad.turns + ArgDegrees(rad.dir))

\* total_angle / 360.0
DivideBy360(q) ==
  IF RationalIsNaN(q) THEN NaNRational ELSE [num |-> q.num, den |-> q.den * 360]

\* The integer nearest to num / den (den > 0), ties to the even one, as np.round.
RoundHalfEven(num, den) ==
  LET q == num \div den
      r == num - q * den
  IN  IF 2 * r < den THEN q
      ELSE IF 2 * r > den THEN q + 1
      ELSE IF q % 2 = 0 THEN q ELSE q + 1

\* np.round(q)
Round(q) ==
  IF RationalIsNaN(q) THEN NaNRational ELSE Integer(RoundHalfEven(q.num, q.den))

\* The number of decimals of np.round(n_rotations, 3), as the factor 10^3.
RoundScale == 1000

\* np.round(q, 3)
Round3(q) ==
  IF RationalIsNaN(q) THEN NaNRational
  ELSE [num |-> RoundHalfEven(RoundScale * q.num, q.den), den |-> RoundScale]

\* 1 / atol of the assertion (atol=1e-8), and 1 / rtol of numpy's default
\* rtol = 1e-5, which the assertion leaves in force.
AtolInv == 100000000
DefaultRtolInv == 100000

\* np.isclose(a, b, atol=1e-8) for a = np.round(b, 3):
\*   |a - b| <= atol + rtol * |b|,  both sides times RoundScale * b.den / rtol.
\* NaN is close to nothing (equal_nan is False).
IsCloseToRound3(a, b) ==
  /\ ~RationalIsNaN(a)
  /\ ~RationalIsNaN(b)
  /\ DefaultRtolInv * Abs(a.num * b.den - RoundScale * b.num)
       <= (RoundScale * b.den) \div (AtolInv \div DefaultRtolInv)
            + RoundScale * Abs(b.num)

----------------------------------------------------------------------------
(* A call of compute_n_rotations(arg) *)

\* Input points lie on the 3 x 3 integer lattice.
Coord == 0 .. 2
Point == Coord \X Coord
Inputs == UNION {[1..n -> Point] : n \in 0..MaxLen}

Init ==
  /\ pc = "compute_total_angle"
  /\ arg \in Inputs
  /\ points = arg
  /\ i = 0
  /\ cumulative_angle = ZeroAngle
  /\ n_calls = 0
  /\ ret_total = None
  /\ total_angle = NaNRational
  /\ n_rotations = NaNRational
  /\ round_n_rotations = NaNRational
  /\ ret = None
  /\ err = None
  /\ v1 = <<0, 0>>
  /\ v2 = <<0, 0>>
  /\ ret_angle = None

\* Line 36: assert len(points) > 2
AssertLenFails ==
  /\ pc = "compute_total_angle"
  /\ ~LenOk(points)
  /\ pc' = "raised"
  /\ err' = Some("AssertionError: Need at least 3 points for a complete polygon.")
  /\ UNCHANGED <<arg, points, i, cumulative_angle, n_calls, ret_total, total_angle,
                 n_rotations, round_n_rotations, ret, v1, v2, ret_angle>>

\* Lines 36-42: the assertion passes, the closing point is trimmed, the sum starts.
AssertLenAndTrim ==
  /\ pc = "compute_total_angle"
  /\ LenOk(points)
  /\ points' = Trimmed(points)
  /\ cumulative_angle' = ZeroAngle
  /\ i' = 0
  /\ pc' = "loop"
  /\ UNCHANGED <<arg, n_calls, ret_total, total_angle, n_rotations,
                 round_n_rotations, ret, err, v1, v2, ret_angle>>

\* Lines 43-48: one iteration of the loop.
LoopIteration ==
  /\ pc = "loop"
  /\ i < LoopBound(points)
  /\ cumulative_angle' =
       AddAngle(cumulative_angle, angle_between(EdgeV1(points, i), EdgeV2(points, i)))
  /\ n_calls' = n_calls + 1
  /\ i' = i + 1
  /\ UNCHANGED <<pc, arg, points, ret_total, total_angle, n_rotations,
                 round_n_rotations, ret, err, v1, v2, ret_angle>>

\* Line 49: return cumulative_angle
ReturnTotalAngle ==
  /\ pc = "loop"
  /\ i = LoopBound(points)
  /\ ret_total' = Some(cumulative_angle)
  /\ pc' = "compute_n_rotations"
  /\ UNCHANGED <<arg, points, i, cumulative_angle, n_calls, total_angle, n_rotations,
                 round_n_rotations, ret, err, v1, v2, ret_angle>>

\* Lines 53-55: degrees, raw rotation count, rounded rotation count.
Convert ==
  /\ pc = "compute_n_rotations"
  /\ total_angle' = rad_to_deg(ret_total[1])
  /\ n_rotations' = DivideBy360(total_angle')
  /\ round_n_rotations' = Round(n_rotations')
  /\ pc' = "assert_close"
  /\ UNCHANGED <<arg, points, i, cumulative_angle, n_calls, ret_total, ret, err,
                 v1, v2, ret_angle>>

\* Line 57: the assertion fails.
AssertCloseFails ==
  /\ pc = "assert_close"
  /\ ~IsCloseToRound3(Round3(n_rotations), n_rotations)
  /\ pc' = "raised"
  /\ err' = Some("AssertionError")
  /\ UNCHANGED <<arg, points, i, cumulative_angle, n_calls, ret_total, total_angle,
                 n_rotations, round_n_rotations, ret, v1, v2, ret_angle>>

\* Lines 57-58: the assertion passes and round_n_rotations is returned.
ReturnRotations ==
  /\ pc = "assert_close"
  /\ IsCloseToRound3(Round3(n_rotations), n_rotations)
  /\ ret' = Some(round_n_rotations)
  /\ pc' = "returned"
  /\ UNCHANGED <<arg, points, i, cumulative_angle, n_calls, ret_total, total_angle,
                 n_rotations, round_n_rotations, err, v1, v2, ret_angle>>

Next ==
  \/ AssertLenFails
  \/ AssertLenAndTrim
  \/ LoopIteration
  \/ ReturnTotalAngle
  \/ Convert
  \/ AssertCloseFails
  \/ ReturnRotations

Spec == Init /\ [][Next]_vars

----------------------------------------------------------------------------
(* A direct call of angle_between(v1, v2) *)

Vec == (-VMax .. VMax) \X (-VMax .. VMax)

InitAngle ==
  /\ pc = "angle_between"
  /\ v1 \in Vec
  /\ v2 \in Vec
  /\ ret_angle = None
  /\ arg = <<>>
  /\ points = <<>>
  /\ i = 0
  /\ cumulative_angle = ZeroAngle
  /\ n_calls = 0
  /\ ret_total = None
  /\ total_angle = NaNRational
  /\ n_rotations = NaNRational
  /\ round_n_rotations = NaNRational
  /\ ret = None
  /\ err = None

\* Lines 10-30.
CallAngleBetween ==
  /\ pc = "angle_between"
  /\ ret_angle' = Some(angle_between(v1, v2))
  /\ n_calls' = n_calls + 1
  /\ pc' = "returned"
  /\ UNCHANGED <<arg, points, i, cumulative_angle, ret_total, total_angle,
                 n_rotations, round_n_rotations, ret, err, v1, v2>>

NextAngle == CallAngleBetween

SpecAngle == InitAngle /\ [][NextAngle]_vars

----------------------------------------------------------------------------
(* Lines 53-58 of compute_n_rotations as a function of the angle that        *)
(* compute_total_angle hands it: whole turns plus a multiple of 45 degrees,  *)
(* or NaN.                                                                   *)

Octants == {<<1, 0>>, <<1, 1>>, <<0, 1>>, <<-1, 1>>,
            <<-1, 0>>, <<-1, -1>>, <<0, -1>>, <<1, -1>>}

TotalAngles ==
  {[turns |-> t, dir |-> d] : t \in -MaxTurns .. MaxTurns, d \in Octants}
    \cup {NaNAngle}

InitRot ==
  /\ pc = "compute_n_rotations"
  /\ \E a \in TotalAngles : ret_total = Some(a)
  /\ arg = <<>>
  /\ points = <<>>
  /\ i = 0
  /\ cumulative_angle = ZeroAngle
  /\ n_calls = 0
  /\ total_angle = NaNRational
  /\ n_rotations = NaNRational
  /\ round_n_rotations = NaNRational
  /\ ret = None
  /\ err = None
  /\ v1 = <<0, 0>>
  /\ v2 = <<0, 0>>
  /\ ret_angle = None

NextRot ==
  \/ Convert
  \/ AssertCloseFails
  \/ ReturnRotations

SpecRot == InitRot /\ [][NextRot]_vars

----------------------------------------------------------------------------
(* Plane geometry the properties are stated in *)

CrossOf(a, b) == a[1] * b[2] - a[2] * b[1]
DotOf(a, b) == a[1] * b[1] + a[2] * b[2]
IsZero(v) == v = <<0, 0>>

\* w points the way v does.
SameDirection(w, v) == CrossOf(w, v) = 0 /\ DotOf(w, v) > 0

\* v turned by the principal part of the angle a (times a positive length).
Rotated(v, a) == <<v[1] * a.dir[1] - v[2] * a.dir[2],
                   v[1] * a.dir[2] + v[2] * a.dir[1]>>

----------------------------------------------------------------------------
(* Properties of angle_between, under SpecAngle *)

AngleReturned == pc = "returned" /\ ret_angle # None

\* C3: for non-zero, non-collinear v1, v2 the result is the signed rotation
\* taking the direction of v1 onto that of v2: it lies strictly between -pi
\* and pi and is not 0, it is positive exactly when v1 x v2 > 0 and negative
\* exactly when v1 x v2 < 0, turning v1 by it gives the direction of v2, and
\* it is the same for all vectors with the directions of v1 and v2.
C3_SignedRotation ==
  (AngleReturned /\ ~IsZero(v1) /\ ~IsZero(v2) /\ CrossOf(v1, v2) # 0) =>
    LET a == ret_angle[1]
    IN  /\ ~AngleIsNaN(a)
        /\ a.turns = 0
        /\ Sgn(a.dir[2]) = Sgn(CrossOf(v1, v2))
        /\ SameDirection(Rotated(v1, a), v2)
        /\ \A w1, w2 \in Vec :
             (SameDirection(w1, v1) /\ SameDirection(w2, v2)) =>
               angle_between(w1, w2) = a

\* A clockwise quarter turn between vectors of different lengths, as
\* angle_between([0,10], [100,0]) of the tests is.
C3_Witness ==
  /\ AngleReturned
  /\ v1 = <<0, 1>>
  /\ v2 = <<3, 0>>
  /\ ret_angle[1] = [turns |-> 0, dir |-> <<0, -1>>]

\* C8: for non-zero collinear v1, v2 the result is 0 when they point the same
\* way and +pi when they point opposite ways, in both argument orders; for all
\* non-zero v1, v2 the result lies in (-pi, pi], so it is never -pi, and it is
\* 0 only for vectors pointing the same way.
C8_PositiveTieBreak ==
  (AngleReturned /\ ~IsZero(v1) /\ ~IsZero(v2)) =>
    LET a == ret_angle[1]
    IN  /\ ~AngleIsNaN(a)
        /\ a.turns = 0
        /\ (a = ZeroAngle) <=> SameDirection(v1, v2)
        /\ (CrossOf(v1, v2) = 0 /\ DotOf(v1, v2) < 0) =>
             (a = Pi /\ angle_between(v2, v1) = Pi)

\* Opposite vectors of different lengths.
C8_Witness ==
  /\ AngleReturned
  /\ v1 = <<2, 1>>
  /\ v2 = <<-2, -1>>
  /\ ret_angle[1] = Pi

----------------------------------------------------------------------------
(* Polygons the properties are stated in *)

\* Vertex k of the closed polygon w, cyclically, k counted from 0.
Vtx(w, k) == w[(k % Len(w)) + 1]

\* r lies on the closed segment from p to q.
OnSegment(p, q, r) ==
  /\ CrossOf(Minus(q, p), Minus(r, p)) = 0
  /\ DotOf(Minus(r, p), Minus(r, q)) <= 0

Orient(p, q, r) == Sgn(CrossOf(Minus(q, p), Minus(r, p)))

\* The closed segments p1 p2 and p3 p4 have a point in common.
SegmentsMeet(p1, p2, p3, p4) ==
  \/ /\ Orient(p1, p2, p3) # Orient(p1, p2, p4)
     /\ Orient(p3, p4, p1) # Orient(p3, p4, p2)
  \/ OnSegment(p1, p2, p3)
  \/ OnSegment(p1, p2, p4)
  \/ OnSegment(p3, p4, p1)
  \/ OnSegment(p3, p4, p2)

\* w is a simple polygon: at least 3 vertices, all different, consecutive
\* edges meeting only in their common vertex and other edges not at all.
IsSimplePolygon(w) ==
  LET n == Len(w)
  IN  /\ n >= 3
      /\ \A a, b \in 0 .. n - 1 : a # b => Vtx(w, a) # Vtx(w, b)
      /\ \A k \in 0 .. n - 1 :
           /\ ~OnSegment(Vtx(w, k), Vtx(w, k + 1), Vtx(w, k + 2))
           /\ ~OnSegment(Vtx(w, k + 1), Vtx(w, k + 2), Vtx(w, k))
      /\ \A a, b \in 0 .. n - 1 :
           (a + 1 < b /\ ~(a = 0 /\ b = n - 1)) =>
             ~SegmentsMeet(Vtx(w, a), Vtx(w, a + 1), Vtx(w, b), Vtx(w, b + 1))

\* Twice the signed area of w (shoelace formula): positive for a simple
\* polygon listed counterclockwise, negative for one listed clockwise.
RECURSIVE Shoelace(_, _)
Shoelace(w, k) ==
  IF k = 0 THEN 0
  ELSE Shoelace(w, k - 1) + CrossOf(Vtx(w, k - 1), Vtx(w, k))

Area2(w) == Shoelace(w, Len(w))

\* w turns clockwise at some vertex.
HasReflexVertex(w) ==
  \E k \in 0 .. Len(w) - 1 :
    CrossOf(Minus(Vtx(w, k + 1), Vtx(w, k)), Minus(Vtx(w, k + 2), Vtx(w, k + 1))) < 0

\* Two cyclically consecutive points of w are the same.
HasZeroEdge(w) == \E k \in 0 .. Len(w) - 1 : Vtx(w, k) = Vtx(w, k + 1)

RECURSIVE Reverse(_)
Reverse(w) == IF w = <<>> THEN <<>> ELSE Append(Reverse(Tail(w)), Head(w))

\* The closing point has been dealt with: `points` is the working sequence.
AfterTrim == pc = "loop" \/ ret_total # None

----------------------------------------------------------------------------
(* Properties of compute_total_angle and compute_n_rotations, under Spec *)

\* C1: for a simple polygon (closing point repeated or not) the call of
\* compute_n_rotations does not fail, and what it returns is exactly 1 when
\* the vertices are listed counterclockwise and exactly -1 when clockwise.
C1_SimplePolygonRotations ==
  (AfterTrim /\ IsSimplePolygon(points)) =>
    /\ pc # "raised"
    /\ pc = "returned" =>
         ret = Some(Integer(IF Area2(points) > 0 THEN 1 ELSE -1))

\* A clockwise simple polygon given with its closing point, returning -1.
C1_Witness ==
  /\ pc = "returned"
  /\ Len(arg) = Len(points) + 1
  /\ IsSimplePolygon(points)
  /\ Area2(points) < 0
  /\ ret = Some(Integer(-1))

\* C2: for a simple polygon compute_total_angle returns 2*pi when the
\* vertices are listed counterclockwise and -2*pi when clockwise, and the
\* reversed vertex list gives the negated angle.
C2_TotalAngleOfSimplePolygon ==
  (ret_total # None /\ IsSimplePolygon(points)) =>
    /\ ret_total[1] = (IF Area2(points) > 0 THEN TwoPi ELSE MinusTwoPi)
    /\ compute_total_angle(Reverse(arg)) = NegAngle(ret_total[1])

\* A non-convex simple polygon listed counterclockwise, with total 2*pi.
C2_Witness ==
  /\ ret_total = Some(TwoPi)
  /\ IsSimplePolygon(points)
  /\ HasReflexVertex(points)
  /\ Area2(points) > 0
  /\ compute_total_angle(Reverse(arg)) = MinusTwoPi

\* C4 as claimed: for every input of at least 3 points the working sequence
\* has a last point that differs from its first, and an input with its
\* closing point repeated gives the angle of the input without it.
C4_NoDuplicateClosingPoint ==
  /\ AfterTrim => Last(points) # At(points, 0)
  /\ (ret_total # None /\ Len(arg) >= 4 /\ Last(arg) = At(arg, 0)) =>
       ret_total[1] = compute_total_angle(DropLast(arg))

\* C4 as amended: when the first and last points of the input coincide,
\* exactly one trailing point is removed and otherwise none; when the
\* second-to-last point of the input differs from its first point, the last
\* point of the working sequence differs from its first; a polygon of at
\* least 3 points whose last point differs from its first gives the same
\* angle with its closing point repeated as without it.
C4_OneClosingPointRemoved ==
  /\ AfterTrim =>
       points = (IF Last(arg) = At(arg, 0) THEN DropLast(arg) ELSE arg)
  /\ (AfterTrim /\ At(arg, Len(arg) - 2) # At(arg, 0)) =>
       Last(points) # At(points, 0)
  /\ (ret_total # None /\ Len(arg) >= 4 /\ Last(arg) = At(arg, 0)
        /\ At(arg, Len(arg) - 2) # At(arg, 0)) =>
       ret_total[1] = compute_total_angle(DropLast(arg))

\* A counterclockwise triangle given with its closing point repeated.
C4_Witness ==
  /\ ret_total = Some(TwoPi)
  /\ Len(arg) = 4
  /\ Last(arg) = At(arg, 0)
  /\ points = DropLast(arg)
  /\ Last(points) # At(points, 0)

\* C5: an input of fewer than 3 points ends in the assertion error of line
\* 36, before any angle is computed and without any value being returned.
C5_TooFewPointsFail ==
  (Len(arg) < 3) =>
    /\ pc \in {"compute_total_angle", "raised"}
    /\ pc = "raised" =>
         err = Some("AssertionError: Need at least 3 points for a complete polygon.")
    /\ n_calls = 0
    /\ ret_total = None
    /\ ret = None

\* A 2-point input has been refused.
C5_Witness ==
  /\ Len(arg) = 2
  /\ pc = "raised"
  /\ n_calls = 0
  /\ ret = None

\* C7 as claimed: when two cyclically consecutive points of the working
\* sequence coincide, neither compute_total_angle nor compute_n_rotations
\* returns a value.
C7_ZeroEdgeReturnsNothing ==
  (AfterTrim /\ HasZeroEdge(points)) => (ret_total = None /\ ret = None)

\* C7 as amended: when two cyclically consecutive points of the working
\* sequence coincide, compute_total_angle does return, and what it returns is
\* NaN; compute_n_rotations never returns, it ends in the assertion error of
\* line 57.
C7_ZeroEdgeGivesNaN ==
  (AfterTrim /\ HasZeroEdge(points)) =>
    /\ ret_total # None => ret_total = Some(NaNAngle)
    /\ ret = None
    /\ pc # "returned"
    /\ pc = "raised" => err = Some("AssertionError")

\* An input with a repeated point in the middle: NaN came back from
\* compute_total_angle and compute_n_rotations raised.
C7_Witness ==
  /\ pc = "raised"
  /\ Len(arg) >= 3
  /\ HasZeroEdge(points)
  /\ ret_total = Some(NaNAngle)
  /\ err = Some("AssertionError")

\* C9 as claimed: the loop runs over at least 3 points, and the three
\* indices of an iteration are different.
C9_LoopOverThreePoints ==
  (pc = "loop") =>
    /\ Len(points) >= 3
    /\ i < Len(points) =>
         /\ i # IdxJ(points, i)
         /\ i # IdxK(points, i)
         /\ IdxJ(points, i) # IdxK(points, i)

\* C10: for an input of at least 3 points without a zero-length edge in the
\* working sequence, simple or not, the cumulative angle is a whole number of
\* turns, the assertion of line 57 passes, and compute_n_rotations returns
\* that whole number.
C10_WholeTurns ==
  (AfterTrim /\ ~HasZeroEdge(points)) =>
    /\ ret_total # None => ret_total[1].dir = <<1, 0>>
    /\ pc # "raised"
    /\ pc = "returned" => ret = Some(Integer(ret_total[1].turns))

\* A self-intersecting quadrilateral, with rotation count 0.
C10_Witness ==
  /\ pc = "returned"
  /\ Len(points) = 4
  /\ ~HasZeroEdge(points)
  /\ SegmentsMeet(Vtx(points, 0), Vtx(points, 1), Vtx(points, 2), Vtx(points, 3))
  /\ \A a, b \in 0 .. 3 : a # b => Vtx(points, a) # Vtx(points, b)
  /\ ret = Some(Integer(0))

----------------------------------------------------------------------------
(* The validation of compute_n_rotations, under SpecRot *)

\* C6 as claimed: a result is returned only when the raw rotation count is
\* an integer.
C6_OnlyIntegersReturned ==
  (pc = "returned") =>
    (~RationalIsNaN(n_rotations) /\ n_rotations.num % n_rotations.den = 0)

====
